---- MODULE Spec2Model ----
(***************************************************************************)
(* riptide_navigation thrust_mapper: the thrust allocation node.           *)
(*                                                                         *)
(* Startup (Solver::Solver) resolves ten thruster frames against the TF    *)
(* service, fills the geometry table pos_<thruster>, subscribes and builds *)
(* the bounded least-squares problem.  Every inbound Accel message runs    *)
(* Solver::callback: copy the command, zero the ten unknowns, ceres::Solve,*)
(* publish.                                                                *)
(*                                                                         *)
(* Arithmetic.  The program computes in doubles; the model computes in     *)
(* fixed point.  Forces are whole newtons, positions whole centimetres,    *)
(* accelerations hundredths of m/s^2 (rad/s^2), mass and inertia are in    *)
(* units of 1e-4 kg (kg m^2).  Division truncates toward zero.             *)
(***************************************************************************)
EXTENDS Integers, FiniteSets, Sequences, TLC

(***************************************************************************)
(* Program constants (thrust_mapper.cpp lines 16-26).                      *)
(***************************************************************************)
MIN_THRUST == -18
MAX_THRUST == 18
\* 48.8428 kg, in 1e-4 kg
MASS == 488428
\* 0.55649783, 1.89075467, 1.96057706 kg m^2, rounded to 1e-4
Ix == 5565
Iy == 18908
Iz == 19606

(***************************************************************************)
(* Bounds of the model.                                                    *)
(***************************************************************************)
\* number of commands the transport delivers in one run
MaxCycles == 3

SurgeThrusters == {"surge_stbd_hi", "surge_port_hi", "surge_port_lo", "surge_stbd_lo"}
SwayThrusters == {"sway_fwd", "sway_aft"}
HeaveThrusters == {"heave_port_aft", "heave_stbd_aft", "heave_stbd_fwd", "heave_port_fwd"}
Thrusters == SurgeThrusters \cup SwayThrusters \cup HeaveThrusters

\* struct vector / makeVector
makeVector(X, Y, Z) == [x |-> X, y |-> Y, z |-> Z]
Origin == makeVector(0, 0, 0)

\* the TF frame of a thruster
FrameOf(t) ==
    CASE t = "surge_stbd_hi" -> "/surge_stbd_hi_thruster"
      [] t = "surge_port_hi" -> "/surge_port_hi_thruster"
      [] t = "surge_port_lo" -> "/surge_port_lo_thruster"
      [] t = "surge_stbd_lo" -> "/surge_stbd_lo_thruster"
      [] t = "sway_fwd" -> "/sway_fwd_thruster"
      [] t = "sway_aft" -> "/sway_aft_thruster"
      [] t = "heave_port_aft" -> "/heave_port_aft_thruster"
      [] t = "heave_stbd_aft" -> "/heave_stbd_aft_thruster"
      [] t = "heave_stbd_fwd" -> "/heave_stbd_fwd_thruster"
      [] t = "heave_port_fwd" -> "/heave_port_fwd_thruster"
Frames == {FrameOf(t) : t \in Thrusters}


(***************************************************************************)
(* The environment: the TF service and the command transport.              *)
(***************************************************************************)
\* a TF tree: the position of every thruster frame relative to /base_link
Tree(ssh, sph, spl, ssl, wf, wa, hpa, hsa, hsf, hpf) ==
    [fr \in Frames |->
        CASE fr = FrameOf("surge_stbd_hi") -> ssh
          [] fr = FrameOf("surge_port_hi") -> sph
          [] fr = FrameOf("surge_port_lo") -> spl
          [] fr = FrameOf("surge_stbd_lo") -> ssl
          [] fr = FrameOf("sway_fwd") -> wf
          [] fr = FrameOf("sway_aft") -> wa
          [] fr = FrameOf("heave_port_aft") -> hpa
          [] fr = FrameOf("heave_stbd_aft") -> hsa
          [] fr = FrameOf("heave_stbd_fwd") -> hsf
          [] fr = FrameOf("heave_port_fwd") -> hpf]

\* mirror-symmetric vehicle: heave thrusters at the corners of a rectangle
TreeSym == Tree(makeVector(-10, -20, 10), makeVector(-10, 20, 10),
                makeVector(-10, 20, -10), makeVector(-10, -20, -10),
                makeVector(30, 0, 5), makeVector(-30, 0, 5),
                makeVector(-20, 10, 0), makeVector(-20, -10, 0),
                makeVector(20, -10, 0), makeVector(20, 10, 0))
\* heave thrusters on one diagonal line: their roll and pitch moments coincide
TreeDiag == Tree(makeVector(-10, -20, 10), makeVector(-10, 20, 10),
                 makeVector(-10, 20, -10), makeVector(-10, -20, -10),
                 makeVector(30, 0, 0), makeVector(-30, 0, 0),
                 makeVector(-15, -15, 0), makeVector(-5, -5, 0),
                 makeVector(5, 5, 0), makeVector(15, 15, 0))
\* all surge thrusters above the centre of mass, heave thrusters amidships
TreeHigh == Tree(makeVector(-10, -20, 10), makeVector(-10, 20, 10),
                 makeVector(-20, 20, 10), makeVector(-20, -20, 10),
                 makeVector(30, 0, 0), makeVector(-30, 0, 0),
                 makeVector(0, 20, 0), makeVector(0, -20, 0),
                 makeVector(0, -10, 0), makeVector(0, 10, 0))
Trees == {TreeSym, TreeDiag, TreeHigh}

\* geometry_msgs::Accel
Accel(lx, ly, lz, ax, ay, az) ==
    [linear |-> makeVector(lx, ly, lz), angular |-> makeVector(ax, ay, az)]
ZeroAccel == Accel(0, 0, 0, 0, 0, 0)
\* 12.93 rad/s^2 about the roll axis
PureRoll == Accel(0, 0, 0, 1293, 0, 0)
\* 3 m/s^2 of surge: beyond 4 * 18 N / 48.8428 kg = 1.47 m/s^2
OverSurge == Accel(300, 0, 0, 0, 0, 0)
\* all six axes, all different
Mixed == Accel(50, -20, 30, 100, -40, 60)
Accels == {ZeroAccel, PureRoll, OverSurge, Mixed}


(***************************************************************************)
(* EQUATIONS (lines 65-146): the six residual functors.  f is the vector   *)
(* of the ten unknowns, p the geometry table pos_<thruster>, c the command *)
(* scalars cmdSurge .. cmdYaw.  Each functor is the parenthesised sum of   *)
(* its line (<axis>Sum), divided by the mass or the moment of inertia,     *)
(* less the command (<axis>Of).  Residuals are in hundredths.              *)
(***************************************************************************)
\* double division, truncated toward zero
Quot(a, b) == IF a >= 0 THEN a \div b ELSE -((-a) \div b)
Sq(a) == a * a

surgeSum(f, p) == f.surge_stbd_hi + f.surge_port_hi + f.surge_port_lo + f.surge_stbd_lo
\* fault: the command added instead of subtracted
surgeOfSignSlip(s, c) == Quot(s * 1000000, MASS) + c.cmdSurge
surgeOf(s, c) == Quot(s * 1000000, MASS) - c.cmdSurge
surge(f, p, c) == surgeOf(surgeSum(f, p), c)

swaySum(f, p) == f.sway_fwd + f.sway_aft
swayOf(s, c) == Quot(s * 1000000, MASS) - c.cmdSway
sway(f, p, c) == swayOf(swaySum(f, p), c)

heaveSum(f, p) == f.heave_port_aft + f.heave_stbd_aft + f.heave_stbd_fwd + f.heave_port_fwd
heaveOf(s, c) == Quot(s * 1000000, MASS) - c.cmdHeave
heave(f, p, c) == heaveOf(heaveSum(f, p), c)

rollSum(f, p) ==
    f.heave_port_aft * p.heave_port_aft.y + f.heave_stbd_aft * p.heave_stbd_aft.y
    + f.heave_stbd_fwd * p.heave_stbd_fwd.y + f.heave_port_fwd * p.heave_port_fwd.y
    + f.sway_fwd * p.sway_fwd.z + f.sway_aft * p.sway_aft.z
rollOf(s, c) == Quot(s * 10000, Ix) - c.cmdRoll
roll(f, p, c) == rollOf(rollSum(f, p), c)

pitchSum(f, p) ==
    f.surge_stbd_hi * p.surge_stbd_hi.z + f.surge_port_hi * p.surge_port_hi.z
    + f.surge_port_lo * p.surge_port_lo.z + f.surge_stbd_lo * p.surge_stbd_lo.z
    + f.heave_port_aft * p.heave_port_aft.x + f.heave_stbd_aft * p.heave_stbd_aft.x
    + f.heave_stbd_fwd * p.heave_stbd_fwd.x + f.heave_port_fwd * p.heave_port_fwd.x
pitchOf(s, c) == Quot(s * 10000, Iy) - c.cmdPitch
pitch(f, p, c) == pitchOf(pitchSum(f, p), c)

yawSum(f, p) ==
    f.surge_stbd_hi * p.surge_stbd_hi.y + f.surge_port_hi * p.surge_port_hi.y
    + f.surge_port_lo * p.surge_port_lo.y + f.surge_stbd_lo * p.surge_stbd_lo.y
    + f.sway_fwd * p.sway_fwd.x + f.sway_aft * p.sway_aft.x
yawOf(s, c) == Quot(s * 10000, Iz) - c.cmdYaw
yaw(f, p, c) == yawOf(yawSum(f, p), c)

(***************************************************************************)
(* PROBLEM SETUP (lines 232-295).                                          *)
(***************************************************************************)
\* the sums of the six residual blocks added to the problem
Sums(f, p) == <<surgeSum(f, p), swaySum(f, p), heaveSum(f, p),
                rollSum(f, p), pitchSum(f, p), yawSum(f, p)>>

\* the objective ceres minimises: the sum of the squared residuals
CostOf(s, c) ==
    Sq(surgeOf(s[1], c)) + Sq(swayOf(s[2], c)) + Sq(heaveOf(s[3], c))
    + Sq(rollOf(s[4], c)) + Sq(pitchOf(s[5], c)) + Sq(yawOf(s[6], c))
Cost(f, p, c) == CostOf(Sums(f, p), c)

\* problem.SetParameterLowerBound(&t, 0, MIN_THRUST), one pair per call
LowerBounds ==
    { <<"surge_port_hi", MIN_THRUST>>, <<"surge_stbd_hi", MIN_THRUST>>,
      <<"surge_port_lo", MIN_THRUST>>, <<"surge_stbd_lo", MIN_THRUST>>,
      <<"sway_fwd", MIN_THRUST>>, <<"sway_aft", MIN_THRUST>>,
      <<"heave_port_fwd", MIN_THRUST>>, <<"heave_stbd_fwd", MIN_THRUST>>,
      <<"heave_port_aft", MIN_THRUST>>, <<"heave_stbd_aft", MIN_THRUST>> }

\* fault: the four SetParameterUpperBound calls of the surge group left out
UpperBoundsNoSurge ==
    { <<"sway_fwd", MAX_THRUST>>, <<"sway_aft", MAX_THRUST>>,
      <<"heave_port_fwd", MAX_THRUST>>, <<"heave_stbd_fwd", MAX_THRUST>>,
      <<"heave_port_aft", MAX_THRUST>>, <<"heave_stbd_aft", MAX_THRUST>> }

\* problem.SetParameterUpperBound(&t, 0, MAX_THRUST), one pair per call
UpperBounds ==
    { <<"surge_port_hi", MAX_THRUST>>, <<"surge_stbd_hi", MAX_THRUST>>,
      <<"surge_port_lo", MAX_THRUST>>, <<"surge_stbd_lo", MAX_THRUST>>,
      <<"sway_fwd", MAX_THRUST>>, <<"sway_aft", MAX_THRUST>>,
      <<"heave_port_fwd", MAX_THRUST>>, <<"heave_stbd_fwd", MAX_THRUST>>,
      <<"heave_port_aft", MAX_THRUST>>, <<"heave_stbd_aft", MAX_THRUST>> }

(***************************************************************************)
(* ceres::Solve (line 340), a bounds-constrained trust-region minimiser of *)
(* a convex objective.  An unknown moves in the interval between its       *)
(* registered bounds; an unknown with no bound registered on a side is     *)
(* free on that side.  The model samples each interval at its two ends,    *)
(* at zero and at the starting value; a free side is sampled at Beyond.    *)
(***************************************************************************)
Beyond == 2 * MAX_THRUST

Lowest(t) == IF \E b \in LowerBounds : b[1] = t
             THEN {b[2] : b \in {d \in LowerBounds : d[1] = t}} ELSE {-Beyond}
Highest(t) == IF \E b \in UpperBounds : b[1] = t
              THEN {b[2] : b \in {d \in UpperBounds : d[1] = t}} ELSE {Beyond}

\* the sampled values of unknown t: inside its interval
Levels(t, x0) ==
    {v \in Lowest(t) \cup {0, x0[t]} \cup Highest(t) :
        (\A lo \in Lowest(t) : lo <= v) /\ (\A hi \in Highest(t) : v <= hi)}

NoForce == [t \in Thrusters |-> 0]

\* the sampled values of one group of unknowns, the other unknowns at zero
SurgePart(x0) ==
    { [NoForce EXCEPT !.surge_stbd_hi = a1, !.surge_port_hi = a2,
                      !.surge_port_lo = a3, !.surge_stbd_lo = a4] :
        a1 \in Levels("surge_stbd_hi", x0), a2 \in Levels("surge_port_hi", x0),
        a3 \in Levels("surge_port_lo", x0), a4 \in Levels("surge_stbd_lo", x0) }
SwayPart(x0) ==
    { [NoForce EXCEPT !.sway_fwd = b1, !.sway_aft = b2] :
        b1 \in Levels("sway_fwd", x0), b2 \in Levels("sway_aft", x0) }
HeavePart(x0) ==
    { [NoForce EXCEPT !.heave_port_aft = c1, !.heave_stbd_aft = c2,
                      !.heave_stbd_fwd = c3, !.heave_port_fwd = c4] :
        c1 \in Levels("heave_port_aft", x0), c2 \in Levels("heave_stbd_aft", x0),
        c3 \in Levels("heave_stbd_fwd", x0), c4 \in Levels("heave_port_fwd", x0) }

Plus(f, g) == [t \in Thrusters |-> f[t] + g[t]]
Plus6(s, t) == <<s[1] + t[1], s[2] + t[2], s[3] + t[3], s[4] + t[4], s[5] + t[5], s[6] + t[6]>>

\* the least element of a set of numbers, as a set
Least(S) == {m \in S : \A k \in S : m <= k}

Dist(f, g) ==
    Sq(f.surge_stbd_hi - g.surge_stbd_hi) + Sq(f.surge_port_hi - g.surge_port_hi)
    + Sq(f.surge_port_lo - g.surge_port_lo) + Sq(f.surge_stbd_lo - g.surge_stbd_lo)
    + Sq(f.sway_fwd - g.sway_fwd) + Sq(f.sway_aft - g.sway_aft)
    + Sq(f.heave_port_aft - g.heave_port_aft) + Sq(f.heave_stbd_aft - g.heave_stbd_aft)
    + Sq(f.heave_stbd_fwd - g.heave_stbd_fwd) + Sq(f.heave_port_fwd - g.heave_port_fwd)

\* the sampled feasible points for geometry p.  The six sums are linear in
\* the unknowns, so the sums of a point are the sums of its three parts added up.
Grid(p, x0) ==
    LET A == {<<Sums(f, p), f>> : f \in SurgePart(x0)}
        B == {<<Sums(f, p), f>> : f \in SwayPart(x0)}
        H == {<<Sums(f, p), f>> : f \in HeavePart(x0)}
        AB == {<<Plus6(a[1], b[1]), Plus(a[2], b[2])>> : a \in A, b \in B}
    IN  [ab |-> AB, h |-> H,
         sums |-> {Plus6(ab, h) : ab \in {e[1] : e \in AB}, h \in {e[1] : e \in H}}]

\* the least-squares-optimal points of a grid: the objective is evaluated
\* once for every value the sums take
Minimisers(g, c) ==
    LET scored == {<<CostOf(s, c), s>> : s \in g.sums}
        best == Least({e[1] : e \in scored})
        optimal == {e[2] : e \in {d \in scored : d[1] \in best}}
    IN  {Plus(e[1][2], e[2][2]) : e \in {d \in g.ab \X g.h : Plus6(d[1][1], d[2][1]) \in optimal}}

\* the minimisers the descent from x0 ends in: those nearest to x0
\* (x0 itself when x0 is already optimal: the first gradient test ends the run)
Reached(g, c, x0) ==
    LET ms == Minimisers(g, c)
        near == Least({Dist(f, x0) : f \in ms})
    IN  {f \in ms : Dist(f, x0) \in near}

\* what a call may return: the values left in the unknowns and
\* summary.termination_type.  A run that stops at the iteration cap
\* (max_num_iterations = 100) has either not left x0 or is at the minimiser
\* without its tolerances met; a run started at an optimum converges at once.
Ending(g, c, x0) ==
    LET ends == Reached(g, c, x0)
    IN  {[x |-> f, termination_type |-> "CONVERGENCE"] : f \in ends}
        \cup {[x |-> f, termination_type |-> "NO_CONVERGENCE"] :
                f \in {e \in ends \cup {x0} : x0 \notin ends}}

CeresSolve(p, c, x0) == Ending(Grid(p, x0), c, x0)

(***************************************************************************)
(* Solver::Solver, TF part (lines 195-225).                                *)
(***************************************************************************)
\* the stamped transforms of class Solver
Transforms == {"surge_1", "surge_2", "surge_3", "surge_4", "sway_1", "sway_2",
               "heave_1", "heave_2", "heave_3", "heave_4"}

\* the waitForTransform / lookupTransform pairs in program order:
\* the frame asked for and the member the answer is stored in
Lookups ==
    << <<"/surge_port_hi_thruster", "surge_2">>,
       <<"/surge_stbd_hi_thruster", "surge_1">>,
       <<"/surge_port_lo_thruster", "surge_4">>,
       <<"/surge_stbd_lo_thruster", "surge_3">>,
       <<"/sway_fwd_thruster", "sway_1">>,
       <<"/sway_aft_thruster", "sway_2">>,
       <<"/heave_port_fwd_thruster", "heave_2">>,
       <<"/heave_stbd_fwd_thruster", "heave_1">>,
       <<"/heave_port_aft_thruster", "heave_4">>,
       <<"/heave_stbd_aft_thruster", "heave_3">> >>

\* a default-constructed tf::StampedTransform has its origin at zero
NoTransforms == [v \in Transforms |-> Origin]

\* lookupTransform number k answered from the TF tree
Store(tr, tree, k) == [tr EXCEPT ![Lookups[k][2]] = tree[Lookups[k][1]]]

\* the assignments to pos_<thruster> (lines 216-225)
PosFrom(tr) ==
    [ surge_port_hi |-> makeVector(tr.surge_2.x, tr.surge_2.y, tr.surge_2.z),
      surge_stbd_hi |-> makeVector(tr.surge_1.x, tr.surge_1.y, tr.surge_1.z),
      surge_port_lo |-> makeVector(tr.surge_3.x, tr.surge_3.y, tr.surge_3.z),
      surge_stbd_lo |-> makeVector(tr.surge_4.x, tr.surge_4.y, tr.surge_4.z),
      sway_fwd |-> makeVector(tr.sway_1.x, tr.sway_1.y, tr.sway_1.z),
      sway_aft |-> makeVector(tr.sway_2.x, tr.sway_2.y, tr.sway_2.z),
      heave_port_fwd |-> makeVector(tr.heave_4.x, tr.heave_4.y, tr.heave_4.z),
      heave_stbd_fwd |-> makeVector(tr.heave_3.x, tr.heave_3.y, tr.heave_3.z),
      heave_port_aft |-> makeVector(tr.heave_1.x, tr.heave_1.y, tr.heave_1.z),
      heave_stbd_aft |-> makeVector(tr.heave_2.x, tr.heave_2.y, tr.heave_2.z) ]

\* the file-scope pos_<thruster> before the constructor runs: zero-initialised
NoGeometry == [t \in Thrusters |-> Origin]

(***************************************************************************)
(* Solver::callback, the assignments around the solve.                     *)
(***************************************************************************)
\* fault: cmdYaw = a->angular.y
CopyCommandYawSlip(a) ==
    [ cmdSurge |-> a.linear.x, cmdSway |-> a.linear.y, cmdHeave |-> a.linear.z,
      cmdRoll |-> a.angular.x, cmdPitch |-> a.angular.y, cmdYaw |-> a.angular.y ]

\* fault: cmdPitch = a->angular.x
CopyCommandPitchSlip(a) ==
    [ cmdSurge |-> a.linear.x, cmdSway |-> a.linear.y, cmdHeave |-> a.linear.z,
      cmdRoll |-> a.angular.x, cmdPitch |-> a.angular.x, cmdYaw |-> a.angular.z ]

\* lines 304-310
CopyCommand(a) ==
    [ cmdSurge |-> a.linear.x, cmdSway |-> a.linear.y, cmdHeave |-> a.linear.z,
      cmdRoll |-> a.angular.x, cmdPitch |-> a.angular.y, cmdYaw |-> a.angular.z ]

\* lines 29-34
NoCommand == CopyCommand(ZeroAccel)

\* fault: the last of the ten assignments (line 323) left out
ResetAllButLast(f) ==
    [ f EXCEPT !.surge_stbd_hi = 0, !.surge_port_hi = 0, !.surge_port_lo = 0,
               !.surge_stbd_lo = 0, !.sway_fwd = 0, !.sway_aft = 0,
               !.heave_port_aft = 0, !.heave_stbd_aft = 0, !.heave_stbd_fwd = 0 ]

\* fault: no reset at all, the solve starts where the unknowns stand
KeepUnknowns(f) == f

\* lines 314-323
ResetUnknowns(f) ==
    [ f EXCEPT !.surge_stbd_hi = 0, !.surge_port_hi = 0, !.surge_port_lo = 0,
               !.surge_stbd_lo = 0, !.sway_fwd = 0, !.sway_aft = 0,
               !.heave_port_aft = 0, !.heave_stbd_aft = 0, !.heave_stbd_fwd = 0,
               !.heave_port_fwd = 0 ]

\* fault: += in place of =, the message accumulates
FillThrustAdding(force, f) == Plus(force, f)

\* lines 363-372
FillThrust(force, f) ==
    [ force EXCEPT !.surge_stbd_hi = f.surge_stbd_hi, !.surge_port_hi = f.surge_port_hi,
                   !.surge_port_lo = f.surge_port_lo, !.surge_stbd_lo = f.surge_stbd_lo,
                   !.sway_fwd = f.sway_fwd, !.sway_aft = f.sway_aft,
                   !.heave_port_aft = f.heave_port_aft, !.heave_stbd_aft = f.heave_stbd_aft,
                   !.heave_stbd_fwd = f.heave_stbd_fwd, !.heave_port_fwd = f.heave_port_fwd ]

\* what the double members of Solver may hold before their first assignment
Uninitialised == {NoForce, [t \in Thrusters |-> 7]}

(***************************************************************************)
(* The solves of a clean run, evaluated once: every geometry table the     *)
(* constructor can build from a TF tree, every command, all unknowns zero. *)
(***************************************************************************)
RECURSIVE StoreAll(_, _, _)
StoreAll(tr, tree, k) ==
    IF k > Len(Lookups) THEN tr ELSE StoreAll(Store(tr, tree, k), tree, k + 1)
Geometries == {PosFrom(StoreAll(NoTransforms, tree, 1)) : tree \in Trees}
Commands == {CopyCommand(a) : a \in Accels}
ColdStarts ==
    UNION { LET g == Grid(p, NoForce)
            IN  {[p |-> p, c |-> c, x0 |-> NoForce, out |-> Ending(g, c, NoForce)] :
                    c \in Commands} : p \in Geometries }

(***************************************************************************)
(* State.                                                                  *)
(***************************************************************************)
VARIABLES
    pc,          \* "startup", "spin", "solving", "publishing" or "aborted"
    tf,          \* the TF tree the listener sees
    looked,      \* number of lookupTransform calls that have returned
    transforms,  \* surge_1 .. heave_4
    pos,         \* pos_surge_stbd_hi .. pos_heave_port_fwd
    subscribed,  \* cmd_sub and cmd_pub exist
    cmd,         \* cmdSurge .. cmdYaw
    x,           \* the ten unknowns surge_stbd_hi .. heave_port_fwd
    summary,     \* ceres::Solver::Summary
    thrust,      \* riptide_msgs::ThrustStamped
    msg,         \* the Accel message the running callback was called with
    delivered,   \* number of callbacks entered
    published,   \* the messages sent on command/thrust, each with the
                 \* command and the solver verdict of its cycle
    solved,      \* the solves so far: input and outcome
    failed       \* a lookupTransform has thrown

vars == <<pc, tf, looked, transforms, pos, subscribed, cmd, x, summary, thrust,
          msg, delivered, published, solved, failed>>

Init ==
    /\ pc = "startup"
    /\ tf \in Trees
    /\ looked = 0
    /\ transforms = NoTransforms
    /\ pos = NoGeometry
    /\ subscribed = FALSE
    /\ cmd = NoCommand
    /\ x \in Uninitialised
    /\ summary = [termination_type |-> "NO_CONVERGENCE"]
    /\ thrust = [force |-> NoForce]
    /\ msg = ZeroAccel
    /\ delivered = 0
    /\ published = << >>
    /\ solved = {}
    /\ failed = FALSE

(***************************************************************************)
(* Solver::Solver                                                          *)
(***************************************************************************)
\* fault: the exception caught around the pair and startup carried on
LookupTransformCaught ==
    /\ pc = "startup"
    /\ looked < Len(Lookups)
    /\ \E resolves \in BOOLEAN :
        /\ transforms' = IF resolves THEN Store(transforms, tf, looked + 1) ELSE transforms
        /\ failed' = (failed \/ ~resolves)
    /\ looked' = looked + 1
    /\ UNCHANGED <<pc, tf, pos, subscribed, cmd, x, summary, thrust, msg, delivered,
                   published, solved>>

\* one waitForTransform / lookupTransform pair.  The result of the wait is
\* not looked at; a frame that is still unknown makes lookupTransform throw,
\* nothing catches the exception and the process ends.
LookupTransform ==
    /\ pc = "startup"
    /\ looked < Len(Lookups)
    /\ \E resolves \in BOOLEAN :
        IF resolves
        THEN /\ transforms' = Store(transforms, tf, looked + 1)
             /\ looked' = looked + 1
             /\ UNCHANGED <<pc, failed>>
        ELSE /\ pc' = "aborted"
             /\ failed' = TRUE
             /\ UNCHANGED <<transforms, looked>>
    /\ UNCHANGED <<tf, pos, subscribed, cmd, x, summary, thrust, msg, delivered,
                   published, solved>>

\* the rest of the constructor (lines 216-295), then main enters loop()
Construct ==
    /\ pc = "startup"
    /\ looked = Len(Lookups)
    /\ pos' = PosFrom(transforms)
    /\ subscribed' = TRUE
    /\ pc' = "spin"
    /\ UNCHANGED <<tf, looked, transforms, cmd, x, summary, thrust, msg, delivered,
                   published, solved, failed>>

(***************************************************************************)
(* Solver::callback, in three steps: up to the solve, the solve, after it. *)
(***************************************************************************)
Deliver ==
    /\ pc = "spin"
    /\ subscribed
    /\ delivered < MaxCycles
    /\ \E a \in Accels :
        /\ msg' = a
        /\ cmd' = CopyCommand(a)
    /\ x' = ResetUnknowns(x)
    /\ delivered' = delivered + 1
    /\ pc' = "solving"
    /\ UNCHANGED <<tf, looked, transforms, pos, subscribed, summary, thrust,
                   published, solved, failed>>

\* the outcome of an earlier solve of the same input: the solver is
\* single-threaded with no time limit, it repeats itself
Recalled(c, x0) == {e.out : e \in {d \in solved : d.c = c /\ d.x0 = x0}}

Solutions(p, c, x0) ==
    LET cold == {e \in ColdStarts : e.p = p /\ e.c = c /\ e.x0 = x0}
    IN  IF cold # {} THEN UNION {e.out : e \in cold} ELSE CeresSolve(p, c, x0)

Solve ==
    /\ pc = "solving"
    /\ \E r \in (IF Recalled(cmd, x) # {} THEN Recalled(cmd, x) ELSE Solutions(pos, cmd, x)) :
        /\ x' = r.x
        /\ summary' = [termination_type |-> r.termination_type]
        /\ solved' = solved \cup {[c |-> cmd, x0 |-> x, out |-> r]}
    /\ pc' = "publishing"
    /\ UNCHANGED <<tf, looked, transforms, pos, subscribed, cmd, thrust, msg,
                   delivered, published, failed>>

\* fault: the message sent only when the solver reports convergence
PublishIfConverged ==
    /\ pc = "publishing"
    /\ thrust' = [thrust EXCEPT !.force = FillThrust(thrust.force, x)]
    /\ published' = IF summary.termination_type = "CONVERGENCE"
                    THEN Append(published, [a |-> msg, force |-> thrust'.force,
                                            termination_type |-> summary.termination_type])
                    ELSE published
    /\ pc' = "spin"
    /\ UNCHANGED <<tf, looked, transforms, pos, subscribed, cmd, x, summary, msg,
                   delivered, solved, failed>>

Publish ==
    /\ pc = "publishing"
    /\ thrust' = [thrust EXCEPT !.force = FillThrust(thrust.force, x)]
    /\ published' = Append(published, [a |-> msg, force |-> thrust'.force,
                                       termination_type |-> summary.termination_type])
    /\ pc' = "spin"
    /\ UNCHANGED <<tf, looked, transforms, pos, subscribed, cmd, x, summary, msg,
                   delivered, solved, failed>>

Next == LookupTransform \/ Construct \/ Deliver \/ Solve \/ Publish

Spec == Init /\ [][Next]_vars

(***************************************************************************)
(* Properties.                                                             *)
(***************************************************************************)
Cycles == DOMAIN published
Within(force) == \A t \in Thrusters : MIN_THRUST <= force[t] /\ force[t] <= MAX_THRUST
Saturated(force) == \A t \in SurgeThrusters : force[t] = MAX_THRUST
SurgeIdle(force) == \A t \in SurgeThrusters : force[t] = 0

\* the geometry table is its own mirror image in the plane x = 0 as far as the
\* heave and the sway thrusters go
FlipX(v) == makeVector(-v.x, v.y, v.z)
Count(G, p, v) == Cardinality({t \in G : p[t] = v})
Mirror(p) ==
    /\ \A t \in HeaveThrusters :
         Count(HeaveThrusters, p, FlipX(p[t])) = Count(HeaveThrusters, p, p[t])
    /\ \A t \in SwayThrusters :
         Count(SwayThrusters, p, FlipX(p[t])) = Count(SwayThrusters, p, p[t])

\* the y and the z offsets of the four surge thrusters cancel: at equal
\* forces they produce no yaw and no pitch moment
SurgeBalanced(p) ==
    /\ p.surge_stbd_hi.y + p.surge_port_hi.y + p.surge_port_lo.y + p.surge_stbd_lo.y = 0
    /\ p.surge_stbd_hi.z + p.surge_port_hi.z + p.surge_port_lo.z + p.surge_stbd_lo.z = 0

\* C1: every force of every published message lies in [MIN_THRUST, MAX_THRUST],
\* and the message published last holds the solver's values as they are.
C1_ForcesWithinBounds ==
    /\ \A i \in Cycles : Within(published[i].force)
    /\ pc = "spin" /\ published # << >> => published[Len(published)].force = x

\* an infeasible command, after an earlier cycle, published with an unknown at its bound
C1_Witness ==
    \E i \in Cycles :
        /\ i > 1
        /\ published[i].a = OverSurge
        /\ published[i].force.surge_stbd_hi = MAX_THRUST

\* C2: every callback entered has published exactly one message by the time
\* it returns, and none before; the solver verdict plays no part.
C2_OnePublicationPerCommand ==
    Len(published) = IF pc \in {"solving", "publishing"} THEN delivered - 1 ELSE delivered

\* a cycle whose solve did not converge has published, and so has the next
C2_Witness ==
    /\ pc = "spin"
    /\ Len(published) = 2
    /\ published[1].termination_type = "NO_CONVERGENCE"
    /\ published[2].termination_type = "CONVERGENCE"

\* C3: when ceres::Solve is called the six targets are the six components of
\* the message this callback was called with.
C3_TargetsAreCurrentCommand ==
    pc = "solving" =>
        /\ cmd.cmdSurge = msg.linear.x
        /\ cmd.cmdSway = msg.linear.y
        /\ cmd.cmdHeave = msg.linear.z
        /\ cmd.cmdRoll = msg.angular.x
        /\ cmd.cmdPitch = msg.angular.y
        /\ cmd.cmdYaw = msg.angular.z

\* a six-axis command about to be solved right after a different command
C3_Witness ==
    /\ pc = "solving"
    /\ msg = Mixed
    /\ published # << >>
    /\ published[Len(published)].a = OverSurge

\* C4: when ceres::Solve is called all ten unknowns are zero.
C4_ColdStart == pc = "solving" => \A t \in Thrusters : x[t] = 0

\* about to solve after a cycle whose solve left nonzero values
C4_Witness ==
    /\ pc = "solving"
    /\ published # << >>
    /\ published[Len(published)].force # NoForce
    /\ x = NoForce

\* C5: once a lookup has failed the process is gone: it has not subscribed,
\* has filled no geometry table, enters no callback and publishes nothing.
C5_FailedStartupIsFatal ==
    /\ failed => /\ pc = "aborted"
                 /\ ~subscribed
                 /\ pos = NoGeometry
                 /\ delivered = 0
                 /\ published = << >>
    /\ subscribed => looked = Len(Lookups) /\ ~failed

\* the sixth lookup failed after five had resolved
C5_Witness == failed /\ looked = 5

\* C6: two consecutive cycles with the same command publish the same forces.
C6_SameCommandSameForces ==
    \A i \in Cycles : \A j \in Cycles :
        j = i + 1 /\ published[i].a = published[j].a
            => published[i].force = published[j].force

\* a command with a nonzero answer issued twice, after a different command
C6_Witness ==
    /\ Len(published) = 3
    /\ published[1].a = OverSurge
    /\ published[2].a = PureRoll
    /\ published[3].a = PureRoll
    /\ published[3].force # NoForce

\* C7: for the all-zero command the six residuals are zero at the start of
\* the solve, and the forces published are all zero, in every geometry.
C7_ZeroCommandZeroForces ==
    /\ pc = "solving" /\ msg = ZeroAccel =>
        /\ surge(x, pos, cmd) = 0 /\ sway(x, pos, cmd) = 0 /\ heave(x, pos, cmd) = 0
        /\ roll(x, pos, cmd) = 0 /\ pitch(x, pos, cmd) = 0 /\ yaw(x, pos, cmd) = 0
    /\ \A i \in Cycles : published[i].a = ZeroAccel => published[i].force = NoForce

\* the zero command published right after a cycle with nonzero forces
C7_Witness ==
    \E i \in Cycles :
        /\ i > 1
        /\ published[i].a = ZeroAccel
        /\ published[i - 1].force # NoForce
        /\ published[i].force = NoForce

\* C8 as claimed: a pure roll command leaves the four surge forces zero
\* (taken in the case most favourable to the claim: the solver converged).
C8_PureRollLeavesSurgeIdle ==
    \A i \in Cycles :
        published[i].a = PureRoll /\ published[i].termination_type = "CONVERGENCE"
            => SurgeIdle(published[i].force)

\* C8 amended: a pure roll command leaves the four surge forces zero when
\* the heave and sway entries of the geometry table are mirror images in x.
C8_PureRollLeavesSurgeIdleWhenMirrored ==
    \A i \in Cycles :
        published[i].a = PureRoll /\ Mirror(pos) => SurgeIdle(published[i].force)

\* a pure roll answered by heave forces in a mirrored geometry
C8_Witness ==
    \E i \in Cycles :
        /\ published[i].a = PureRoll
        /\ Mirror(pos)
        /\ published[i].force # NoForce
        /\ SurgeIdle(published[i].force)

\* C9 as claimed: an over-maximum pure surge command is published with all
\* four surge thrusters at MAX_THRUST (taken in the case most favourable to
\* the claim: the solver converged).
C9_OverSurgeSaturates ==
    \A i \in Cycles :
        published[i].a = OverSurge /\ published[i].termination_type = "CONVERGENCE"
            => Saturated(published[i].force)

\* C9 amended: an over-maximum pure surge command is published, within the
\* bounds, with a nonzero surge residual, the same when repeated; the four
\* surge thrusters are all at MAX_THRUST when the solver converged and the
\* surge offsets in the geometry table cancel.
C9_OverSurgeSaturatesWhenBalanced ==
    /\ pc = "spin" /\ delivered > 0 /\ msg = OverSurge =>
        Len(published) = delivered /\ published[Len(published)].a = OverSurge
    /\ \A i \in Cycles :
        published[i].a = OverSurge =>
            /\ Within(published[i].force)
            /\ surge(published[i].force, pos, CopyCommand(OverSurge)) # 0
            /\ i + 1 \in Cycles /\ published[i + 1].a = OverSurge
                => published[i + 1].force = published[i].force
            /\ published[i].termination_type = "CONVERGENCE" /\ SurgeBalanced(pos)
                => Saturated(published[i].force)

\* the command published twice, saturated, in a balanced geometry
C9_Witness ==
    /\ Len(published) = 2
    /\ published[1].a = OverSurge
    /\ published[2].a = OverSurge
    /\ SurgeBalanced(pos)
    /\ published[2].termination_type = "CONVERGENCE"
    /\ Saturated(published[2].force)

\* C10 as claimed: after startup every pos_<name> is the position of the
\* frame /<name>_thruster.
C10_GeometryMatchesFrames ==
    pc \in {"spin", "solving", "publishing"} =>
        \A t \in Thrusters : pos[t] = tf[FrameOf(t)]

====
